---- MODULE Spec2Model ----
(***************************************************************************)
(* Minesweeper: the Board of src/minesweeper.py (create, click, flag,      *)
(* has_won), the MinesweeperLPSolver of src/solver.py (add_constraint,     *)
(* get_next), and the rounds Game.on_execute plays with the two.           *)
(*                                                                         *)
(* A cell is the pair <<x, y>>, x the column and y the row; the code's     *)
(* grid[y][x] is the model's grid[<<x, y>>].                               *)
(***************************************************************************)
EXTENDS Integers, Sequences, FiniteSets, TLC

\* Board.windowWidth and Board.windowHeight of the boards explored.
Width == 3
Height == 3
\* The number of click / flag / add_constraint calls explored after create().
MaxSteps == 2
\* The values of Board.mines explored: no mine, one mine, and a single safe cell.
MineCounts == {0, 1, Width * Height - 1}
\* The values of Board.mines create() is explored with on its own: every
\* placement of up to Width mines, and every placement of a single safe cell.
CreateMineCounts == (0 .. Width) \cup {Width * Height - 1}
\* The values of Board.mines of the games explored.
GameMineCounts == MineCounts \cup {2}
\* The values of mine_count add_constraint is called with.
Clues == {0, 1}

Cells == (0 .. Width - 1) \X (0 .. Height - 1)

InBounds(x, y) == (0 <= x /\ x < Width) /\ (0 <= y /\ y < Height)

VARIABLES
    board,   \* the Board object: mines, is_mine, neighboring_mine_count, pressed,
             \* flagged, bombed (_bombed), remaining, flags_remaining
    solver,  \* the MinesweeperLPSolver object: constraints, known, clicked, flagged
    last,    \* the last call: its name, arguments and return value
    before,  \* the Board as it was when the last call started
    steps,   \* calls made since create()
    running  \* Game._running

vars == <<board, solver, last, before, steps, running>>

----------------------------------------------------------------------------
(* Board.create *)

\* The cells in the order of the two loops of create(): x outer, y inner.
CellOrder == [i \in 1 .. Width * Height |-> <<(i - 1) \div Height, (i - 1) % Height>>]

\* Fault: the literal of create() with (x+1, y+1) typed twice and (x-1, y+1) lost.
CreateOffsets_Typo ==
    << <<1, 0>>, <<1, 1>>, <<0, 1>>, <<1, 1>>,
       <<-1, 0>>, <<-1, -1>>, <<0, -1>>, <<1, -1>> >>

\* Fault: the literal of create() with each diagonal offset replaced by the
\* orthogonal one before it.
CreateOffsets_NoDiagonal ==
    << <<1, 0>>, <<1, 0>>, <<0, 1>>, <<0, 1>>,
       <<-1, 0>>, <<-1, 0>>, <<0, -1>>, <<0, -1>> >>

\* The neighbour offsets create() walks, in the order of its list literal.
CreateOffsets ==
    << <<1, 0>>, <<1, 1>>, <<0, 1>>, <<-1, 1>>,
       <<-1, 0>>, <<-1, -1>>, <<0, -1>>, <<1, -1>> >>

\* The loops below are written <<step, rest>>[2]: the value is `rest`, and TLC
\* evaluates `step` before it, as the code does.

\* The inner loop of create() for the mined cell <<x, y>>, from offset k on:
\* every in-bounds neighbour's count goes up by one.
RECURSIVE CountAround(_, _, _, _)
CountAround(cnt, x, y, k) ==
    IF k > Len(CreateOffsets) THEN cnt
    ELSE LET new_x == x + CreateOffsets[k][1]
             new_y == y + CreateOffsets[k][2]
             next == IF InBounds(new_x, new_y)
                     THEN [cnt EXCEPT ![<<new_x, new_y>>] = @ + 1]
                     ELSE cnt
         IN  <<next, CountAround(next, x, y, k + 1)>>[2]

\* The outer loops of create(), from the i-th cell on.
RECURSIVE ComputeCounts(_, _, _)
ComputeCounts(cnt, mine, i) ==
    IF i > Width * Height THEN cnt
    ELSE LET c == CellOrder[i]
             next == IF mine[c] THEN CountAround(cnt, c[1], c[2], 1) ELSE cnt
         IN  <<next, ComputeCounts(next, mine, i + 1)>>[2]

\* The Board after Board(mines=mines).create(), with `chosen` the cells that
\* sample(candidates, self.mines) returned.
create(mines, chosen) ==
    LET mine == [c \in Cells |-> c \in chosen]
    IN  [ mines |-> mines,
          is_mine |-> mine,
          neighboring_mine_count |-> ComputeCounts([c \in Cells |-> 0], mine, 1),
          pressed |-> [c \in Cells |-> FALSE],
          flagged |-> [c \in Cells |-> FALSE],
          bombed |-> FALSE,
          remaining |-> Width * Height - mines,
          flags_remaining |-> mines ]

----------------------------------------------------------------------------
(* Board.click *)

\* The neighbour offsets click() walks, in the order of its list literal.
ClickOffsets ==
    << <<1, 0>>, <<1, 1>>, <<0, 1>>, <<-1, 1>>,
       <<-1, 0>>, <<-1, -1>>, <<0, -1>>, <<1, -1>> >>

\* The value of a call of click: [b: the Board afterwards, ret: the list
\* returned, calls: the number of invocations of click made, itself included].
Result(b, ret, calls) == [b |-> b, ret |-> ret, calls |-> calls]

\* Fault: the early return of click() without the test of self.flagged.
ClickGuard_NoFlagTest(b, x, y) == b.bombed \/ b.pressed[<<x, y>>]

\* The condition of the early return of click().
ClickGuard(b, x, y) == b.bombed \/ b.pressed[<<x, y>>] \/ b.flagged[<<x, y>>]

\* Fault: the mined branch of click() also marking the cell pressed.
Detonate_Presses(b, x, y) ==
    Result([b EXCEPT !.bombed = TRUE, !.pressed[<<x, y>>] = TRUE], << <<x, y, -1>> >>, 1)

\* The mined branch of click().
Detonate(b, x, y) == Result([b EXCEPT !.bombed = TRUE], << <<x, y, -1>> >>, 1)

\* Fault: click() without `self.remaining = self.remaining - 1`.
Reveal_NoDecrement(b, x, y) ==
    Result([b EXCEPT !.pressed[<<x, y>>] = TRUE],
           << <<x, y, b.neighboring_mine_count[<<x, y>>]>> >>, 1)

\* Fault: the triple of click() carrying 0 for the count of every cell.
Reveal_NoCount(b, x, y) ==
    Result([b EXCEPT !.pressed[<<x, y>>] = TRUE, !.remaining = @ - 1],
           << <<x, y, 0>> >>, 1)

\* click() marking <<x, y>> pressed and starting the list `revealed`.
Reveal(b, x, y) ==
    Result([b EXCEPT !.pressed[<<x, y>>] = TRUE, !.remaining = @ - 1],
           << <<x, y, b.neighboring_mine_count[<<x, y>>]>> >>, 1)

\* Fault: self.click(new_x, new_y) called without revealed.extend(...).
Extend_Dropped(r, sub) == Result(sub.b, r.ret, r.calls + sub.calls)

\* revealed.extend(self.click(new_x, new_y)): r is click's progress so far, sub
\* the value of the recursive call.
Extend(r, sub) == Result(sub.b, r.ret \o sub.ret, r.calls + sub.calls)

\* click(b, x, y) is the call self.click(x, y) on the Board b.
RECURSIVE click(_, _, _)

\* One round of the loop of click(): the neighbour <<new_x, new_y>>.
ClickNeighbor(r, new_x, new_y) ==
    IF InBounds(new_x, new_y) THEN Extend(r, click(r.b, new_x, new_y)) ELSE r

\* Fault: the loop of click() over the four orthogonal neighbours only.
ClickNeighbors_Orthogonal(r0, x, y) ==
    LET n == ClickOffsets
        r1 == ClickNeighbor(r0, x + n[1][1], y + n[1][2])
        r3 == ClickNeighbor(r1, x + n[3][1], y + n[3][2])
        r5 == ClickNeighbor(r3, x + n[5][1], y + n[5][2])
        r7 == ClickNeighbor(r5, x + n[7][1], y + n[7][2])
    IN  <<r1, r3, r5, r7>>[4]

\* The loop of click() over the eight neighbours of <<x, y>>: r1 .. r8 are its
\* states after each round, in the order they are computed.
ClickNeighbors(r0, x, y) ==
    LET n == ClickOffsets
        r1 == ClickNeighbor(r0, x + n[1][1], y + n[1][2])
        r2 == ClickNeighbor(r1, x + n[2][1], y + n[2][2])
        r3 == ClickNeighbor(r2, x + n[3][1], y + n[3][2])
        r4 == ClickNeighbor(r3, x + n[4][1], y + n[4][2])
        r5 == ClickNeighbor(r4, x + n[5][1], y + n[5][2])
        r6 == ClickNeighbor(r5, x + n[6][1], y + n[6][2])
        r7 == ClickNeighbor(r6, x + n[7][1], y + n[7][2])
        r8 == ClickNeighbor(r7, x + n[8][1], y + n[8][2])
    IN  <<r1, r2, r3, r4, r5, r6, r7, r8>>[8]

click(b, x, y) ==
    IF ClickGuard(b, x, y) THEN Result(b, <<>>, 1)
    ELSE IF b.is_mine[<<x, y>>] THEN Detonate(b, x, y)
    ELSE IF b.neighboring_mine_count[<<x, y>>] = 0
         THEN ClickNeighbors(Reveal(b, x, y), x, y)
         ELSE Reveal(b, x, y)

----------------------------------------------------------------------------
(* Board.flag and Board.has_won *)

\* Fault: the early return of flag() without the test of self._bombed.
FlagGuard_NoLostTest(b, x, y) == b.pressed[<<x, y>>]

\* Fault: the early return of flag() without the test of self.pressed.
FlagGuard_NoPressedTest(b, x, y) == b.bombed

\* The condition of the early return of flag().
FlagGuard(b, x, y) == b.bombed \/ b.pressed[<<x, y>>]

\* Fault: flag() setting the bit (self.flagged[y][x] = True) where it toggles it.
Toggle_Set(bit) == TRUE

\* The new value of self.flagged[y][x] in flag().
Toggle(bit) == ~bit

\* Fault: flags_remaining going down by one whichever way the bit went.
Adjust_Down(bit) == -1

\* `1 if not self.flagged[y][x] else -1`, for the new value of the bit.
Adjust(bit) == IF ~bit THEN 1 ELSE -1

flag(b, x, y) ==
    IF FlagGuard(b, x, y) THEN b
    ELSE LET b1 == [b EXCEPT !.flagged[<<x, y>>] = Toggle(@)]
         IN  [b1 EXCEPT !.flags_remaining = @ + Adjust(b1.flagged[<<x, y>>])]

has_won(b) == b.remaining = 0

----------------------------------------------------------------------------
(* MinesweeperLPSolver.__init__ and add_constraint *)

\* A constraint of the LP: sum of x over `cells` `rel` rhs; the two bounds of
\* __init__ range over every variable at once.
Constraint(kind, cells, rhs) == [kind |-> kind, cells |-> cells, rhs |-> rhs]

SolverInit ==
    [ constraints |-> << Constraint("x>=", <<>>, 0), Constraint("x<=", <<>>, 1) >>,
      known |-> [c \in Cells |-> -1],
      clicked |-> {},
      flagged |-> {} ]

\* Fault: dist_j stays 0, so only the cells to the left and right are summed.
DistOrder_Row == [k \in 1 .. 9 |-> <<((k - 1) \div 3) - 1, 0>>]

\* The (dist_i, dist_j) pairs in the order of the two loops of add_constraint.
DistOrder == [k \in 1 .. 9 |-> <<((k - 1) \div 3) - 1, ((k - 1) % 3) - 1>>]

\* The list `neighbors` add_constraint builds for the cell <<i, j>>.
RECURSIVE Neighbors(_, _, _)
Neighbors(i, j, k) ==
    IF k > 9 THEN <<>>
    ELSE LET dist_i == DistOrder[k][1]
             dist_j == DistOrder[k][2]
             n_i == i + dist_i
             n_j == j + dist_j
         IN  IF dist_i = 0 /\ dist_j = 0
             THEN Neighbors(i, j, k + 1)
             ELSE IF InBounds(n_i, n_j)
             THEN << <<n_i, n_j>> >> \o Neighbors(i, j, k + 1)
             ELSE Neighbors(i, j, k + 1)

add_constraint(s, i, j, mine_count) ==
    [ s EXCEPT !.known[<<i, j>>] = mine_count,
               !.clicked = @ \cup {<<i, j>>},
               !.constraints = Append(Append(@, Constraint("==", << <<i, j>> >>, 0)),
                                      Constraint("==", Neighbors(i, j, 1), mine_count)) ]

----------------------------------------------------------------------------
(* MinesweeperLPSolver.get_next *)

\* The value of x.value after prob.solve() is held in quarters: the number v
\* stands for v / Unit, so that 0, 1/4, 1/2, 3/4 and 1 are exact.
Unit == 2 * 2
\* EPSILON = 1e-2, in hundredths.
EPSILON == 1

\* The values of a solution explored when get_next is called on its own, and
\* when the Controller calls it.
SolverValues == {0, 1, 2, Unit}
GameValues == {0, 2, Unit}

\* v <= EPSILON and v >= 1 - EPSILON of the classifying loop.
IsZero(v) == 100 * v <= EPSILON * Unit
IsOne(v) == 100 * v >= (100 - EPSILON) * Unit

\* cp.sum of the variables at `cells`, in the solution sol.
RECURSIVE SumAt(_, _, _)
SumAt(sol, cells, k) ==
    IF k > Len(cells) THEN 0 ELSE sol[cells[k]] + SumAt(sol, cells, k + 1)

\* sol satisfies the constraint con.
Satisfies(sol, con) ==
    CASE con.kind = "x>=" -> \A c \in Cells : sol[c] >= con.rhs * Unit
      [] con.kind = "x<=" -> \A c \in Cells : sol[c] <= con.rhs * Unit
      [] con.kind = "==" -> SumAt(sol, con.cells, 1) = con.rhs * Unit

\* sol is a feasible point of the problem get_next builds from the
\* accumulated constraints.
Feasible(sol, constraints) ==
    \A n \in 1 .. Len(constraints) : Satisfies(sol, constraints[n])

\* The point that has the value v at every variable, and the point that is the
\* Board's mine assignment.
Uniform(v) == [c \in Cells |-> v]
Truth(b) == [c \in Cells |-> IF b.is_mine[c] THEN Unit ELSE 0]

\* The point `base` with the variables that have a constraint x == 0 or x == 1
\* of their own set to that value.
Pinned(s, base) ==
    [c \in Cells |-> IF c \in s.clicked THEN 0
                     ELSE IF c \in s.flagged THEN Unit ELSE base[c]]

\* The points that differ from `base` in at most one variable.
Near(base, vals) ==
    {base} \cup {[base EXCEPT ![c] = v] : c \in Cells, v \in vals}

\* prob.solve() minimises the constant 0, so x.value is any one of the feasible
\* points of the accumulated constraints. The points explored are the feasible
\* ones among the points of `exact` and the points at most one variable away
\* from a point of `near`.
Points(s, exact, near, vals) ==
    { sol \in {Pinned(s, base) : base \in exact}
               \cup UNION {Near(Pinned(s, base), vals) : base \in near}
        : Feasible(sol, s.constraints) }

\* The cells in the order of the comprehension of get_next: j outer, i inner.
ScanOrder == [k \in 1 .. Width * Height |-> <<(k - 1) % Width, (k - 1) \div Width>>]

\* Fault: the flagged cells stay in the list.
IsUnidentified_NoFlagTest(b, c) == ~b.pressed[c]

\* The condition of the comprehension of get_next.
IsUnidentified(b, c) == ~b.pressed[c] /\ ~b.flagged[c]

\* The list `unidentified`.
Unidentified(b) ==
    SelectSeq(ScanOrder, LAMBDA c : IsUnidentified(b, c))

\* The elif branch of the classifying loop.
InOnePos(v) == ~IsZero(v) /\ IsOne(v)

\* min(unidentified, key = the value in sol): the first cell of the list among
\* those of the least value.
RECURSIVE MinFrom(_, _, _, _)
MinFrom(sol, cells, k, best) ==
    IF k > Len(cells) THEN best
    ELSE MinFrom(sol, cells, k + 1,
                 IF sol[cells[k]] < sol[best] THEN cells[k] ELSE best)

\* Fault: the fallback takes the last cell of the list.
Best_Last(sol, cells) == cells[Len(cells)]

Best(sol, cells) == MinFrom(sol, cells, 2, cells[1])

\* The body of the last loop of get_next for the cell c of one_pos.
MarkFlagged(s, c) ==
    IF c \in s.flagged THEN s
    ELSE [ s EXCEPT !.flagged = @ \cup {c},
                    !.constraints = Append(@, Constraint("==", <<c>>, 1)) ]

\* The last loop of get_next, from the k-th cell of one_pos on.
RECURSIVE MarkAll(_, _, _)
MarkAll(s, one_pos, k) ==
    IF k > Len(one_pos) THEN s
    ELSE LET next == MarkFlagged(s, one_pos[k])
         IN  <<next, MarkAll(next, one_pos, k + 1)>>[2]

\* get_next() when prob.solve() returned sol: the solver after the call, the
\* two lists returned, and whether the fallback guess was taken.
\* self.last_solution and self.prob are written and never read, and are left out.
get_next(s, b, sol) ==
    LET unidentified == Unidentified(b)
        zeros == SelectSeq(unidentified, LAMBDA c : IsZero(sol[c]))
        one_pos == SelectSeq(unidentified, LAMBDA c : InOnePos(sol[c]))
        guessed == zeros = <<>> /\ one_pos = <<>> /\ unidentified # <<>>
        zero_pos == IF guessed THEN <<Best(sol, unidentified)>> ELSE zeros
    IN  [ s |-> MarkAll(s, one_pos, 1),
          zero_pos |-> zero_pos,
          one_pos |-> one_pos,
          guessed |-> guessed ]

----------------------------------------------------------------------------
(* Game.on_loop and the loop of Game.on_execute, with the solver of solver.py *)

\* The body of the inner loop of on_loop for the triple t of revealed_squares.
Forward(s, t) == add_constraint(s, t[1], t[2], t[3])

\* Fault: only the first triple of a click is passed to add_constraint.
ForwardAll_FirstOnly(s, revealed_squares, k) ==
    IF Len(revealed_squares) = 0 THEN s ELSE Forward(s, revealed_squares[1])

\* The inner loop of on_loop, from the k-th triple of revealed_squares on.
RECURSIVE ForwardAll(_, _, _)
ForwardAll(s, revealed_squares, k) ==
    IF k > Len(revealed_squares) THEN s
    ELSE LET next == Forward(s, revealed_squares[k])
         IN  <<next, ForwardAll(next, revealed_squares, k + 1)>>[2]

\* The Board, the solver and the triples the clicks have returned so far, after
\* the click whose value is r and the add_constraint calls for its triples.
AfterClick(g, r) ==
    [ b |-> r.b,
      s |-> ForwardAll(g.s, r.ret, 1),
      revealed |-> g.revealed \o r.ret ]

\* The loop of on_loop over `click`, from its k-th cell on.
RECURSIVE ClickAll(_, _, _)
ClickAll(g, cells, k) ==
    IF k > Len(cells) THEN g
    ELSE LET next == AfterClick(g, click(g.b, cells[k][1], cells[k][2]))
         IN  <<next, ClickAll(next, cells, k + 1)>>[2]

\* Fault: on_loop without its loop over `flag`.
FlagAll_Skipped(b, cells, k) == b

\* The loop of on_loop over `flag`, from its k-th cell on.
RECURSIVE FlagAll(_, _, _)
FlagAll(b, cells, k) ==
    IF k > Len(cells) THEN b
    ELSE LET next == flag(b, cells[k][1], cells[k][2])
         IN  <<next, FlagAll(next, cells, k + 1)>>[2]

\* on_loop after get_next returned n: the clicks with their add_constraint
\* calls, then the flags.
Played(n, g) ==
    [ b |-> FlagAll(g.b, n.one_pos, 1),
      s |-> g.s,
      revealed |-> g.revealed,
      at_return |-> n.s,
      zero_pos |-> n.zero_pos,
      one_pos |-> n.one_pos,
      guessed |-> n.guessed ]

Play(b, n) ==
    Played(n, ClickAll([b |-> b, s |-> n.s, revealed |-> <<>>], n.zero_pos, 1))

\* on_loop of a game not lost, when prob.solve() returned sol.
on_loop(b, s, sol) == Play(b, get_next(s, b, sol))

----------------------------------------------------------------------------
(* The state machine *)

Call(op, x, y, ret, calls) ==
    [op |-> op, cell |-> <<x, y>>, ret |-> ret, calls |-> calls]

\* Board(mines=mines) followed by create(), and MinesweeperLPSolver(board), for
\* a value of mines among `counts` and any cells sample() may return.
InitWith(counts) ==
    \E mines \in counts :
    \E chosen \in {m \in SUBSET Cells : Cardinality(m) = mines} :
        /\ board = create(mines, chosen)
        /\ solver = SolverInit
        /\ last = Call("create", 0, 0, <<>>, 0)
        /\ before = board
        /\ steps = 0
        /\ running = TRUE

Init == InitWith(MineCounts)

\* r is the value of the call self.click(x, y).
Clicked(r, x, y) ==
    /\ board' = r.b
    /\ last' = Call("click", x, y, r.ret, r.calls)

Click(x, y) ==
    /\ steps < MaxSteps
    /\ Clicked(click(board, x, y), x, y)
    /\ before' = board
    /\ steps' = steps + 1
    /\ UNCHANGED <<solver, running>>

Flag(x, y) ==
    /\ steps < MaxSteps
    /\ board' = flag(board, x, y)
    /\ last' = Call("flag", x, y, <<>>, 0)
    /\ before' = board
    /\ steps' = steps + 1
    /\ UNCHANGED <<solver, running>>

AddConstraint(i, j, mine_count) ==
    /\ steps < MaxSteps
    /\ solver' = add_constraint(solver, i, j, mine_count)
    /\ last' = Call("add_constraint", i, j, <<>>, 0)
    /\ steps' = steps + 1
    /\ UNCHANGED <<board, before, running>>

\* Any sequence of click and flag calls on the Board.
Next ==
    \/ \E c \in Cells : Click(c[1], c[2])
    \/ \E c \in Cells : Flag(c[1], c[2])

Spec == Init /\ [][Next]_vars

\* create() for each of the placements of CreateMineCounts, and one call of
\* click or flag after it.
CreateInit == InitWith(CreateMineCounts)

CreateNext == steps < 1 /\ Next

CreateSpec == CreateInit /\ [][CreateNext]_vars

\* Any sequence of add_constraint calls on the solver.
SolverNext ==
    \E c \in Cells : \E mine_count \in Clues : AddConstraint(c[1], c[2], mine_count)

SolverSpec == Init /\ [][SolverNext]_vars

\* n is the value of get_next when prob.solve() returned sol.
Returned(n, sol) ==
    /\ solver' = n.s
    /\ last' = [ op |-> "get_next", cell |-> <<0, 0>>, ret |-> <<>>, calls |-> 0,
                 sol |-> sol, zero_pos |-> n.zero_pos, one_pos |-> n.one_pos,
                 guessed |-> n.guessed, at_call |-> solver ]

\* A call of get_next on its own.
GetNext ==
    /\ steps < MaxSteps
    /\ \E sol \in Points(solver, {}, {Uniform(v) : v \in SolverValues}, SolverValues) :
           Returned(get_next(solver, board, sol), sol)
    /\ steps' = steps + 1
    /\ UNCHANGED <<board, before, running>>

\* get_next after any add_constraint calls on the solver and flag calls on a
\* Board without mines.
GetNextInit == InitWith({0})

NotCalled == last.op # "get_next"

GetNextNext ==
    \/ \E c \in Cells : NotCalled /\ Flag(c[1], c[2])
    \/ \E c \in Cells : \E mine_count \in Clues :
           NotCalled /\ AddConstraint(c[1], c[2], mine_count)
    \/ NotCalled /\ GetNext

GetNextSpec == GetNextInit /\ [][GetNextNext]_vars

\* The point that is the Board's mine assignment on the rows above row k and
\* 1/2 on the others.
Decided(b, k) == [c \in Cells |-> IF c[2] < k THEN Truth(b)[c] ELSE Unit \div 2]

\* The points explored in a game as they are: the uniform ones, and the ones
\* that decide the first rows only.
GameBases(b) ==
    {Uniform(v) : v \in GameValues} \cup {Decided(b, k) : k \in 0 .. Height}

\* The cells the calls of get_next up to the last call have returned to flag.
FlagsReturned ==
    IF last.op = "on_loop" THEN last.flags_before \cup {last.one_pos[k] : k \in 1 .. Len(last.one_pos)}
    ELSE {}

\* The call get_next made (the solver when it was called and when it returned,
\* its lists, and the cells earlier calls returned to flag), and the triples
\* the clicks of on_loop returned.
Loop(g, at_call) ==
    [ op |-> "on_loop", cell |-> <<0, 0>>, ret |-> <<>>, calls |-> 0,
      zero_pos |-> g.zero_pos, one_pos |-> g.one_pos, guessed |-> g.guessed,
      revealed |-> g.revealed, at_call |-> at_call, at_return |-> g.at_return,
      flags_before |-> FlagsReturned ]

\* g is the value of on_loop; then on_execute calls win() if has_won().
Looped(g) ==
    /\ board' = g.b
    /\ solver' = g.s
    /\ last' = Loop(g, solver)
    /\ running' = ~has_won(g.b)

\* One round of the loop of on_execute while the game runs and is not lost.
\* A round whose problem has no feasible point among the points explored is
\* not explored.
OnLoop ==
    /\ steps < MaxSteps
    /\ running /\ ~board.bombed
    /\ \E sol \in Points(solver, GameBases(board), {Truth(board)}, GameValues) :
           Looped(on_loop(board, solver, sol))
    /\ before' = board
    /\ steps' = steps + 1

\* The round of on_execute that finds the game lost: on_loop stops the game.
OnLoopLost ==
    /\ steps < MaxSteps
    /\ running /\ board.bombed
    /\ running' = FALSE
    /\ last' = Call("stop", 0, 0, <<>>, 0)
    /\ before' = board
    /\ steps' = steps + 1
    /\ UNCHANGED <<board, solver>>

GameNext == OnLoop \/ OnLoopLost

\* on_init: the Board created, the solver built on it, the game running.
GameInit == InitWith(GameMineCounts)

\* The game on_execute plays.
GameSpec == GameInit /\ [][GameNext]_vars

----------------------------------------------------------------------------
(* Vocabulary of the properties *)

\* The in-bounds cells among the eight around c.
Around(c) ==
    {d \in Cells : d # c /\ d[1] - c[1] \in {-1, 0, 1} /\ d[2] - c[2] \in {-1, 0, 1}}

\* The coordinates of the triples of a list click() returned.
Coords(ret) == {<<ret[i][1], ret[i][2]>> : i \in 1 .. Len(ret)}

\* The triples of ret other than the detonation sentinel.
ClueTriples(ret) == {i \in 1 .. Len(ret) : ret[i][3] # -1}

LastWasClick == last.op = "click"
LastWasFlag == last.op = "flag"
SomeFlag == \E c \in Cells : board.flagged[c]

\* The last call was a click on a cell that was unrevealed and unflagged, in a
\* game that was not lost.
LastClickActed ==
    /\ LastWasClick
    /\ ~before.bombed /\ ~before.pressed[last.cell] /\ ~before.flagged[last.cell]

----------------------------------------------------------------------------
(* Properties of the Board *)

\* C1: in every state reached by click and flag calls, has_won() is true iff
\* every cell that is not mined is pressed, whatever is flagged.
C1_HasWonIffAllSafePressed ==
    has_won(board) <=> (\A c \in Cells : ~board.is_mine[c] => board.pressed[c])

\* C1 witness: a click won the game of a board with a mine while a cell was flagged.
C1_Witness ==
    /\ LastWasClick /\ has_won(board) /\ SomeFlag
    /\ board.mines = 1 /\ before.remaining > 1

\* C2: a click on a cell that is pressed or flagged, or in a lost game, returns
\* the empty list and leaves the Board as it was.
C2_ClickNoOp ==
    (LastWasClick /\ ( \/ before.bombed
                       \/ before.pressed[last.cell]
                       \/ before.flagged[last.cell] ))
        => (last.ret = <<>> /\ board = before)

\* C2 witness: a click on a flagged cell that is not mined, in a game not lost.
C2_Witness ==
    /\ LastWasClick /\ before.flagged[last.cell]
    /\ ~before.bombed /\ ~before.is_mine[last.cell]
    /\ last.ret = <<>>

\* C3: a click on an unrevealed, unflagged mined cell in a game not lost sets
\* _bombed, returns the one triple (x, y, -1) and changes nothing else.
C3_ClickMine ==
    (LastClickActed /\ before.is_mine[last.cell])
        => /\ board.bombed
           /\ last.ret = << <<last.cell[1], last.cell[2], -1>> >>
           /\ board = [before EXCEPT !.bombed = TRUE]

\* C3 witness: a mined cell was clicked after another cell had been revealed.
C3_Witness ==
    /\ LastClickActed /\ before.is_mine[last.cell]
    /\ board.bombed /\ \E c \in Cells : board.pressed[c]

\* The cells of S reached from c0 by steps from a zero-clue cell already reached
\* to one of the eight cells around it.
RECURSIVE ReachedFrom(_, _)
ReachedFrom(R, S) ==
    LET more == {d \in S : \E c \in R :
                     board.neighboring_mine_count[c] = 0 /\ d \in Around(c)}
    IN  IF more \subseteq R THEN R ELSE ReachedFrom(R \cup more, S)

\* The last call was a click that acted on a cell with no mine around it.
LastClickFlooded ==
    /\ LastClickActed
    /\ ~before.is_mine[last.cell]
    /\ before.neighboring_mine_count[last.cell] = 0

\* C4 as stated: after a click on an unrevealed, unflagged zero-clue cell,
\* every zero-clue cell the click revealed has all the in-bounds cells around it
\* pressed.
C4_FloodClosed_AsStated ==
    LastClickFlooded
        => \A c \in Coords(last.ret) :
               board.neighboring_mine_count[c] = 0
                   => \A d \in Around(c) : board.pressed[d]

\* C4 amended: after such a click, every zero-clue cell the click revealed has
\* each in-bounds cell around it pressed or flagged, and every cell the click
\* revealed is reached from the clicked cell through revealed zero-clue cells: the
\* region is connected and ends only at clue cells, flagged cells and edges.
C4_FloodClosedUpToFlags ==
    LastClickFlooded
        => /\ \A c \in Coords(last.ret) :
                  board.neighboring_mine_count[c] = 0
                      => \A d \in Around(c) : board.pressed[d] \/ board.flagged[d]
           /\ \A c \in Coords(last.ret) : board.pressed[c] /\ ~before.pressed[c]
           /\ ReachedFrom({last.cell}, Coords(last.ret)) = Coords(last.ret)

\* C4 witness: a flood-fill of more than one cell stopped at a flagged cell that
\* lies next to a zero-clue cell it revealed, and at a clue cell.
C4_Witness ==
    /\ LastClickFlooded
    /\ \E c \in Coords(last.ret) :
           /\ board.neighboring_mine_count[c] = 0
           /\ \E d \in Around(c) : board.flagged[d] /\ ~board.pressed[d]
    /\ \E c \in Coords(last.ret) : board.neighboring_mine_count[c] > 0

\* C5: the list a click returns names no cell twice and at most Width * Height
\* cells; each cell named was unpressed before and is pressed after; remaining
\* goes down by the number of triples other than the sentinel; and the call
\* ends after at most 1 + 8 * (cells revealed) invocations of click.
C5_ClickRevealsOnce ==
    LastWasClick
        => /\ Cardinality(Coords(last.ret)) = Len(last.ret)
           /\ Len(last.ret) <= Width * Height
           /\ \A i \in ClueTriples(last.ret) :
                  LET c == <<last.ret[i][1], last.ret[i][2]>>
                  IN  ~before.pressed[c] /\ board.pressed[c]
           /\ before.remaining - board.remaining = Cardinality(ClueTriples(last.ret))
           /\ last.calls >= 1
           /\ last.calls <= 1 + 8 * Cardinality(ClueTriples(last.ret))

\* C5 witness: one click revealed every cell of a board without mines.
C5_Witness ==
    /\ LastWasClick
    /\ Len(last.ret) = Width * Height
    /\ board.remaining = 0 /\ before.remaining = Width * Height

\* C6: no cell is both pressed and flagged.
C6_NeverPressedAndFlagged ==
    \A c \in Cells : ~(board.pressed[c] /\ board.flagged[c])

\* C6 witness: a flood-fill went around a flagged cell: the cell is still
\* flagged, and cells around it were revealed by the click.
C6_Witness ==
    /\ LastWasClick /\ Len(last.ret) > 1
    /\ \E d \in Cells :
           /\ board.flagged[d]
           /\ \E c \in Around(d) : c \in Coords(last.ret)

\* C7: after flag(x, y) on an unrevealed cell of a game not lost, a second
\* flag(x, y) gives back the Board the first call started from: the flagged bit,
\* flags_remaining and everything else.
C7_FlagTwiceRestores ==
    (LastWasFlag /\ ~before.bombed /\ ~before.pressed[last.cell])
        => flag(board, last.cell[1], last.cell[2]) = before

\* C7 witness: two consecutive flag calls on the same unrevealed cell were made:
\* the second found the cell flagged by the first and the Board is the created one.
C7_Witness ==
    /\ LastWasFlag /\ steps = 2
    /\ ~before.bombed /\ ~before.pressed[last.cell]
    /\ before.flagged[last.cell] /\ before.flags_remaining = board.mines - 1
    /\ ~SomeFlag /\ board.flags_remaining = board.mines

\* C8: flag(x, y) in a lost game or on a pressed cell leaves the flagged bits
\* and flags_remaining (and the rest of the Board) as they were.
C8_FlagNoOp ==
    (LastWasFlag /\ (before.bombed \/ before.pressed[last.cell]))
        => /\ board.flagged = before.flagged
           /\ board.flags_remaining = before.flags_remaining
           /\ board = before

\* C8 witness: flag was called on an unpressed cell of a lost game.
C8_Witness ==
    /\ LastWasFlag /\ before.bombed /\ ~before.pressed[last.cell]
    /\ ~board.flagged[last.cell]

\* C9: for every placement of exactly `mines` mines, neighboring_mine_count of
\* every cell is the number of mined cells among the in-bounds cells around it,
\* and no click or flag changes is_mine or neighboring_mine_count.
C9_CountsExact ==
    /\ Cardinality({c \in Cells : board.is_mine[c]}) = board.mines
    /\ \A c \in Cells :
           board.neighboring_mine_count[c]
               = Cardinality({d \in Around(c) : board.is_mine[d]})
    /\ board.is_mine = before.is_mine
    /\ board.neighboring_mine_count = before.neighboring_mine_count

\* C9 witness: after a call of click or flag, on a board whose one safe cell is
\* an interior cell with eight mines around it, next to mined corner and edge
\* cells.
C9_Witness ==
    /\ steps = 1 /\ (LastWasClick \/ LastWasFlag)
    /\ \E c \in Cells :
           /\ ~board.is_mine[c]
           /\ Cardinality(Around(c)) = 8
           /\ board.neighboring_mine_count[c] = 8
    /\ \E c \in Cells : board.is_mine[c] /\ Cardinality(Around(c)) = 3
    /\ \E c \in Cells : board.is_mine[c] /\ Cardinality(Around(c)) = 5

\* C21: in every state reached from create() by click and flag calls,
\* flags_remaining is the mine count less the number of flagged cells, which
\* is negative when more cells are flagged than there are mines.
C21_FlagsRemaining ==
    board.flags_remaining
        = board.mines - Cardinality({c \in Cells : board.flagged[c]})

\* C21 witness: a flag call left more cells flagged than there are mines.
C21_Witness ==
    /\ LastWasFlag
    /\ Cardinality({c \in Cells : board.flagged[c]}) > board.mines
    /\ board.flags_remaining < 0

\* C22: a click on a cell that is not mined never sets _bombed, however far
\* its flood fill spreads, and the triple (x, y, -1) only ever occurs as the
\* single element of the list a click returns.
C22_SafeClickNeverLoses ==
    LastWasClick =>
        /\ (~before.bombed /\ ~before.is_mine[last.cell]) => ~board.bombed
        /\ \A i \in 1 .. Len(last.ret) :
               last.ret[i][3] = -1 => Len(last.ret) = 1

\* C22 witness: a click on a zero-clue cell of a Board with a mine revealed
\* cells next to the mine.
C22_Witness ==
    /\ LastClickFlooded
    /\ \E i \in 1 .. Len(last.ret) : last.ret[i][3] > 0
    /\ ~board.bombed

\* The Board before the last call was fresh, 3x3, with one mine, at (2,2).
CornerMineBoard ==
    /\ Width = 3 /\ Height = 3
    /\ before.mines = 1 /\ before.is_mine[<<2, 2>>]
    /\ ~before.bombed
    /\ \A c \in Cells : ~before.pressed[c] /\ ~before.flagged[c]

\* C16: on a 3x3 Board with one mine at (2,2) and no flags, click(0,0) reveals
\* the eight safe cells, each reported once; the three cells next to (2,2)
\* carry clue 1 and the other five clue 0; has_won() is then true and the
\* game is not lost.
C16_CornerMineScenario ==
    (CornerMineBoard /\ LastWasClick /\ last.cell = <<0, 0>>) =>
        /\ Len(last.ret) = 8
        /\ Coords(last.ret) = Cells \ {<<2, 2>>}
        /\ \A i \in 1 .. Len(last.ret) :
               last.ret[i][3] =
                   IF <<last.ret[i][1], last.ret[i][2]>> \in {<<1, 1>>, <<2, 1>>, <<1, 2>>}
                   THEN 1 ELSE 0
        /\ \A c \in Cells \ {<<2, 2>>} : board.pressed[c]
        /\ ~board.pressed[<<2, 2>>]
        /\ has_won(board)
        /\ ~board.bombed

\* C16 witness: click(0,0) was the first call on that Board.
C16_Witness ==
    /\ CornerMineBoard /\ LastWasClick /\ last.cell = <<0, 0>>
    /\ steps = 1 /\ board.remaining = 0

----------------------------------------------------------------------------
(* Properties of the solver *)

\* C10: add_constraint for a cell already in the solver's clicked set leaves
\* the constraint list as long as it was.
C10_AddConstraintIdempotent ==
    [][(last'.op = "add_constraint" /\ last'.cell \in solver.clicked)
           => Len(solver'.constraints) = Len(solver.constraints)]_vars

----------------------------------------------------------------------------
(* Properties of the game the Controller plays *)

\* The cells of a list of cells.
Range(cells) == {cells[k] : k \in 1 .. Len(cells)}

LastWasLoop == last.op = "on_loop"

\* C11: in a game the Controller plays, no call of get_next returns, in either
\* list, a cell that was in the solver's clicked set or in its flagged set
\* when the call was made.
C11_ReturnsOnlyUnknown ==
    LastWasLoop =>
        \A c \in Range(last.zero_pos) \cup Range(last.one_pos) :
            c \notin last.at_call.clicked /\ c \notin last.at_call.flagged

\* C11 witness: a second round whose get_next was called with cells in both
\* sets and returned a cell to flag.
C11_Witness ==
    /\ LastWasLoop /\ steps = 2
    /\ last.at_call.clicked # {} /\ last.at_call.flagged # {}
    /\ last.one_pos # <<>>

----------------------------------------------------------------------------
(* Properties of get_next *)

LastWasGetNext == last.op = "get_next"

\* The cells the Board has neither pressed nor flagged.
Unknown == {c \in Cells : ~board.pressed[c] /\ ~board.flagged[c]}

\* The value v / Unit lies strictly between EPSILON and 1 - EPSILON.
StrictlyBetween(v) == 100 * v > EPSILON * Unit /\ 100 * v < (100 - EPSILON) * Unit

\* The last call of get_next had a solution with every unrevealed and
\* unflagged cell strictly between the thresholds, and there was such a cell.
AllBetween ==
    /\ LastWasGetNext
    /\ Unknown # {}
    /\ \A c \in Unknown : StrictlyBetween(last.sol[c])

\* C12: when the solution gives every unrevealed and unflagged cell a value
\* strictly between EPSILON and 1 - EPSILON and there is such a cell, get_next
\* returns exactly one cell to click, of the least value among those cells,
\* returns no cell to flag, and adds no constraint.
C12_GuessIsMinimum ==
    AllBetween =>
        /\ Len(last.zero_pos) = 1
        /\ last.zero_pos[1] \in Unknown
        /\ \A c \in Unknown : last.sol[last.zero_pos[1]] <= last.sol[c]
        /\ last.one_pos = <<>>
        /\ solver.constraints = last.at_call.constraints
        /\ solver.flagged = last.at_call.flagged

\* C12 witness: such a call on a Board with a flagged cell, where the least
\* value is at a cell that is not the first of the list.
C12_Witness ==
    /\ AllBetween
    /\ \E c \in Unknown : last.sol[c] < last.sol[Unidentified(board)[1]]
    /\ \E c \in Cells : board.flagged[c]

\* C13: when the last add_constraint call for a cell A had clue 0, so that the
\* constraints hold those of add_constraint(A, 0), the next get_next returns,
\* whichever feasible point the solve gave, every cell around A that the Board
\* has neither pressed nor flagged in the list of cells to click.
C13_ZeroClueNeighborsSafe ==
    LastWasGetNext =>
        \A A \in Cells :
            last.at_call.known[A] = 0 =>
                \A d \in Around(A) \cap Unknown : d \in Range(last.zero_pos)

\* C13 witness: get_next called after add_constraint(A, 0), with the cells
\* around A unrevealed and unflagged, returned some cell to flag.
C13_Witness ==
    /\ LastWasGetNext
    /\ \E A \in Cells : last.at_call.known[A] = 0 /\ Around(A) \subseteq Unknown
    /\ last.one_pos # <<>>

\* The triples the clicks of the last round returned.
Revealed == Range(last.revealed)

\* C14: in every round each triple Board.click returned is passed to
\* add_constraint, except the detonation sentinel: add_constraint is never
\* called with clue -1, so the solver holds no constraint for a clicked mine.
C14_SentinelNotForwarded ==
    LastWasLoop =>
        /\ \A t \in Revealed :
               t[3] # -1 => /\ <<t[1], t[2]>> \in solver.clicked
                            /\ solver.known[<<t[1], t[2]>>] = t[3]
        /\ \A t \in Revealed : t[3] = -1 => <<t[1], t[2]>> \notin solver.clicked
        /\ \A n \in 1 .. Len(solver.constraints) : solver.constraints[n].rhs # -1

\* C15: at every call of get_next the Board's mine assignment satisfies every
\* accumulated constraint, whichever feasible points the earlier solves gave.
C15_TruthStaysFeasible ==
    LastWasLoop => Feasible(Truth(board), last.at_call.constraints)

\* C17: whenever get_next returns cells to click without taking the fallback
\* guess, none of them is mined, whichever feasible point the solve gave.
C17_ZeroCellsSafe ==
    (LastWasLoop /\ ~last.guessed) =>
        \A c \in Range(last.zero_pos) : ~board.is_mine[c]

\* C18: every cell get_next returns to flag is mined, whichever feasible point
\* the solve gave.
C18_OneCellsMined ==
    LastWasLoop => \A c \in Range(last.one_pos) : board.is_mine[c]

\* The number of constraints x == 1 for the cell c among `constraints`.
FixedToOne(constraints, c) ==
    Cardinality({n \in 1 .. Len(constraints) : constraints[n] = Constraint("==", <<c>>, 1)})

\* C19: every cell get_next returns to flag is, when get_next returns, in the
\* solver's flagged set with exactly one constraint x == 1; and in a game the
\* Controller plays no cell is returned to flag by two calls of get_next.
C19_FlaggedOnce ==
    LastWasLoop =>
        \A c \in Range(last.one_pos) :
            /\ c \in last.at_return.flagged
            /\ FixedToOne(last.at_return.constraints, c) = 1
            /\ c \notin last.flags_before

\* C19 witness: a second round that returned a cell to flag, after a first
\* round that returned another and clicked a cell.
C19_Witness ==
    /\ LastWasLoop /\ steps = 2
    /\ last.one_pos # <<>>
    /\ last.flags_before # {}
    /\ last.at_call.clicked # {}

\* C20: a game the Controller plays never reaches a state that is neither won
\* nor lost and in which no unrevealed and unflagged cell remains.
C20_NeverStuck ==
    ~(~has_won(board) /\ ~board.bombed /\ Unknown = {})

\* C23: in a game the Controller plays the Board is never won and lost at
\* once: has_won() and _bombed are never both true, also after a round that
\* clicks several cells.
C23_NeverWonAndLost ==
    ~(has_won(board) /\ board.bombed)

\* C24: every run of on_execute without rendering stops, with the game won or
\* lost: every round either leaves fewer unrevealed and unflagged cells than
\* there were, or ends the game (the Board is lost, or win() has stopped the
\* loop), so the rounds cannot go on forever.
C24_EveryRoundProgresses ==
    [][(last'.op = "on_loop" /\ running')
           => (Cardinality(Unknown') < Cardinality(Unknown) \/ board'.bombed)]_vars

\* The cells the Board held revealed when the last round called get_next.
PressedAtCall == {c \in Cells : before.pressed[c]}

\* C25: in a game the Controller plays, at every call of get_next the solver's
\* clicked set is the set of revealed Board cells, the known value of each of
\* them is the Board's adjacent mine count of the cell, and the known value of
\* every other cell is -1.
C25_BeliefAgrees ==
    LastWasLoop =>
        /\ last.at_call.clicked = PressedAtCall
        /\ \A c \in Cells :
               last.at_call.known[c] =
                   IF before.pressed[c] THEN before.neighboring_mine_count[c]
                   ELSE -1

\* C25 witness: a second round whose get_next was called after a flood fill had
\* revealed cells of count 0 and cells of a positive count, with cells still
\* unrevealed.
C25_Witness ==
    /\ LastWasLoop /\ steps = 2
    /\ \E c \in PressedAtCall : last.at_call.known[c] = 0
    /\ \E c \in PressedAtCall : last.at_call.known[c] > 0
    /\ PressedAtCall # Cells
    /\ C25_BeliefAgrees

====
